---- MODULE Spec2Model ----
(***************************************************************************)
(* Model of the Architect macro src/index.js: cloudfront(arc, sam, stage)  *)
(* adds a CloudFront distribution for an S3 bucket to a CloudFormation     *)
(* template.  One action models one whole call of the macro on the         *)
(* template `sam`, which the caller owns and which the macro mutates.      *)
(***************************************************************************)
EXTENDS Integers, Sequences, FiniteSets, TLC

VARIABLES
    sam,       \* the template: [Resources |-> name :> definition, Outputs |-> ...]
    arc,       \* the `arc` argument of the last call
    before,    \* the template as it was when the last call started
    result,    \* "none" (no call yet), "returned" or "thrown"
    console,   \* the last console.warn / console.error of the last call
    repeat     \* the last call repeated the arc of a call that just succeeded

vars == <<sam, arc, before, result, console, repeat>>

----------------------------------------------------------------------------
(* JavaScript values                                                        *)

\* `undefined`, and a string value, as results of a property read
Undefined == [def |-> FALSE, v |-> ""]
Str(s) == [def |-> TRUE, v |-> s]

\* obj[k] for an object with string values
Lookup(obj, k) == IF k \in DOMAIN obj THEN Str(obj[k]) ELSE Undefined

\* truthiness of an optional string: undefined and "" are falsy
Truthy(x) == x.def /\ x.v # ""

\* the property key an expression used as obj[expr] names
ToPropertyKey(x) == IF x.def THEN x.v ELSE "undefined"

\* obj[k] = v
Assign(obj, k, v) == (k :> v) @@ obj

\* the `null` a builder returns, and Boolean() on a builder's result
Null == [null |-> TRUE]
Boolean(e) == e # Null

----------------------------------------------------------------------------
(* Inputs                                                                   *)

\* toLogicalID of @architect/utils on the bucket identifiers used here
toLogicalID ==
    ("Static" :> "Static") @@ ("Media" :> "Media") @@ ("media" :> "Media")

BucketIdentifiers == {"media"}
PageDefaults == {"index.html"}
Page403s == {"", "/403.html"}
Page404s == {"/404.html"}
\* `stage` defaults to "staging" and is never read
Stages == {"staging"}

\* a field that is absent (s = {}) or holds the one value of s
Field(k, s) == [x \in (IF s = {} THEN {} ELSE {k}) |-> CHOOSE v \in s : TRUE]

Optional(S) == {{}} \cup {{v} : v \in S}

\* the @cloudfront-distribution sections
CloudfrontSections ==
    { Field("page-default", pd) @@ Field("page-403", p3)
        @@ Field("page-404", p4) @@ Field("bucket", b) :
        pd \in Optional(PageDefaults), p3 \in Optional(Page403s),
        p4 \in Optional(Page404s), b \in Optional(BucketIdentifiers) }

AnySection == Field("page-403", {"/403.html"})

\* the parsed app.arc values: @static present or not, the section present or not
Arcs ==
    { Field("static", {TRUE}) @@ ("cloudfront-distribution" :> cf) :
        cf \in CloudfrontSections }
    \cup { Field("static", {TRUE}),
           Field("static", {FALSE}) @@ ("cloudfront-distribution" :> AnySection),
           ("cloudfront-distribution" :> AnySection),
           [x \in {} |-> TRUE] }

NoArc == [x \in {} |-> TRUE]

\* definitions a template holds before the macro runs
BucketResource == [Type |-> "AWS::S3::Bucket"]
ExistingResource == [Type |-> "AWS::CloudFormation::WaitConditionHandle"]
ExistingOutput == [Description |-> "existing output"]

InitialBuckets == {"StaticBucket", "MediaBucket"}
InitialNames ==
    {"StaticCloudFrontDistribution", "StaticCloudFrontOriginAccessIdentity",
     "StaticResponseHeadersPolicy", "undefined"}
InitialOutputs == {"StaticCloudFrontDistribution", "BucketURL"}

Templates ==
    { [Resources |-> [k \in bs |-> BucketResource]
                       @@ [k \in ns |-> ExistingResource],
       Outputs |-> [k \in os |-> ExistingOutput]] :
        bs \in SUBSET InitialBuckets, ns \in SUBSET InitialNames,
        os \in SUBSET InitialOutputs }

----------------------------------------------------------------------------
(* The macro                                                                *)

WarnNoStatic == "No static S3 bucket configured!"
WarnNoCloudfront ==
    "No Cloudfront configuration available! Please add @cloudfront-distribution to your arc config file."
ErrorNoBucket == "Cannot find bucket!"
ErrorNamesInUse ==
    "Cannot create resources in CloudFormation - names already in use!"

\* the macro without its first guard
NoStatic_Skipped(a) == FALSE

\* !arc.static
NoStatic(a) == ~ ("static" \in DOMAIN a /\ a["static"])

\* !arc["cloudfront-distribution"]
NoCloudfront(a) == "cloudfront-distribution" \notin DOMAIN a

generateCustomErrorResponse(path, code) ==
    IF ~ Truthy(path)
    THEN Null
    ELSE [ErrorCachingMinTTL |-> 60,
          ErrorCode |-> code,
          ResponseCode |-> code,
          ResponsePagePath |-> path.v]

\* ["bucket"]: bucketName = "Static"
bucketName(cf) ==
    IF Lookup(cf, "bucket").def THEN Lookup(cf, "bucket").v ELSE "Static"

\* the bucket resource name fixed, whatever bucket is configured
BucketResourceName_Fixed(ID) == "StaticBucket"

\* `${bucket.ID}Bucket`
BucketResourceName(ID) == ID \o "Bucket"

bucket(cf) ==
    [ID |-> toLogicalID[bucketName(cf)],
     Name |-> BucketResourceName(toLogicalID[bucketName(cf)])]

cloudFrontOriginAccessIdentity(cf) ==
    [Name |-> bucket(cf).ID \o "CloudFrontOriginAccessIdentity",
     sam |-> [Type |-> "AWS::CloudFront::CloudFrontOriginAccessIdentity",
              Properties |->
                [CloudFrontOriginAccessIdentityConfig |-> [x \in {} |-> TRUE]]]]

responseHeadersPolicy(cf) ==
    [Name |-> bucket(cf).ID \o "ResponseHeadersPolicy",
     sam |-> [Type |-> "AWS::CloudFront::ResponseHeadersPolicy",
              Properties |-> [ResponseHeadersPolicyConfig |->
                [Name |-> ("Fn::Sub" :>
                     "${AWS::StackName}-static-site-security-headers"),
                 SecurityHeadersConfig |->
                   [StrictTransportSecurity |->
                      [AccessControlMaxAgeSec |-> 63072000,
                       IncludeSubdomains |-> TRUE,
                       Override |-> TRUE,
                       Preload |-> TRUE],
                    ContentSecurityPolicy |->
                      [ContentSecurityPolicy |->
                         "default-src 'none'; img-src 'self'; script-src 'self'; style-src 'self'; object-src 'none'",
                       Override |-> TRUE],
                    ContentTypeOptions |-> [Override |-> TRUE],
                    FrameOptions |-> [FrameOption |-> "DENY", Override |-> TRUE],
                    ReferrerPolicy |->
                      [ReferrerPolicy |-> "same-origin", Override |-> TRUE],
                    XSSProtection |->
                      [ModeBlock |-> TRUE, Override |-> TRUE,
                       Protection |-> TRUE]]]]]]

\* the list without .filter(Boolean)
CustomErrorResponses_Unfiltered(cf) ==
    << generateCustomErrorResponse(Lookup(cf, "page-403"), 403),
       generateCustomErrorResponse(Lookup(cf, "page-404"), 404) >>

CustomErrorResponses(cf) ==
    SelectSeq(
        << generateCustomErrorResponse(Lookup(cf, "page-403"), 403),
           generateCustomErrorResponse(Lookup(cf, "page-404"), 404) >>,
        Boolean)

cloudFrontDistribution(cf) ==
    [Name |-> bucket(cf).ID \o "CloudFrontDistribution",
     sam |-> [Type |-> "AWS::CloudFront::Distribution",
              Properties |-> [DistributionConfig |->
                [CustomErrorResponses |-> CustomErrorResponses(cf),
                 DefaultCacheBehavior |->
                   [Compress |-> TRUE,
                    DefaultTTL |-> 86400,
                    ForwardedValues |-> [QueryString |-> TRUE],
                    MaxTTL |-> 31536000,
                    TargetOriginId |->
                      ("Fn::Sub" :> "S3-${AWS::StackName}-root"),
                    ViewerProtocolPolicy |-> "redirect-to-https",
                    ResponseHeadersPolicyId |->
                      [Ref |-> responseHeadersPolicy(cf).Name]],
                 DefaultRootObject |-> Lookup(cf, "page-default"),
                 Enabled |-> TRUE,
                 HttpVersion |-> "http2",
                 IPV6Enabled |-> TRUE,
                 Origins |->
                   << [DomainName |-> [Ref |-> bucket(cf).Name],
                       Id |-> ("Fn::Sub" :> "S3-${AWS::StackName}-root"),
                       S3OriginConfig |-> [OriginAccessIdentity |->
                         ("Fn::Join" :>
                            << "",
                               << [Literal |->
                                     "origin-access-identity/cloudfront/"],
                                  [Ref |->
                                     cloudFrontOriginAccessIdentity(cf).Name]
                               >> >>)]] >>,
                 PriceClass |-> "PriceClass_All"]]]]

\* the key cloudFrontOriginAccessIdentity.name names in sam.Resources[...]:
\* the object has the properties Name and sam, and no property `name`
OriginAccessIdentityKey(cf) ==
    ToPropertyKey(Lookup([Name |-> cloudFrontOriginAccessIdentity(cf).Name],
                         "name"))

\* !sam.Resources[bucket.Name]
BucketMissing(s, name) == name \notin DOMAIN s.Resources

\* the check without its first operand
NamesInUse_IdentityOnly(s, cf) ==
    OriginAccessIdentityKey(cf) \in DOMAIN s.Resources

\* the check left out
NamesInUse_Unchecked(s, cf) == FALSE

\* sam.Resources[cloudFrontDistribution.Name] ||
\* sam.Resources[cloudFrontOriginAccessIdentity.name]
NamesInUse(s, cf) ==
    \/ cloudFrontDistribution(cf).Name \in DOMAIN s.Resources
    \/ OriginAccessIdentityKey(cf) \in DOMAIN s.Resources

DistributionOutput(cf) ==
    [Description |-> "CloudFront distribution",
     Value |-> ("Fn::GetAtt" :>
                  cloudFrontDistribution(cf).Name \o ".DomainName")]

\* the three assignments that end a successful call
Inserted(s, cf) ==
    [Resources |->
        Assign(Assign(s.Resources,
                      cloudFrontDistribution(cf).Name,
                      cloudFrontDistribution(cf).sam),
               OriginAccessIdentityKey(cf),
               cloudFrontOriginAccessIdentity(cf).sam),
     Outputs |->
        Assign(s.Outputs, cloudFrontDistribution(cf).Name,
               DistributionOutput(cf))]

Log(level, msg, names) == [level |-> level, msg |-> msg, names |-> names]

\* the last call returned after inserting its resources
Succeeded ==
    result = "returned" /\ ~ NoStatic(arc) /\ ~ NoCloudfront(arc)

cloudfront(a, stage) ==
    /\ arc' = a
    /\ before' = sam
    /\ repeat' = (Succeeded /\ a = arc)
    /\ IF NoStatic(a)
       THEN /\ console' = Log("warn", WarnNoStatic, <<>>)
            /\ result' = "returned"
            /\ sam' = sam
       ELSE IF NoCloudfront(a)
       THEN /\ console' = Log("warn", WarnNoCloudfront, <<>>)
            /\ result' = "returned"
            /\ sam' = sam
       ELSE LET cf == a["cloudfront-distribution"] IN
            IF BucketMissing(sam, bucket(cf).Name)
            THEN /\ console' = Log("error", ErrorNoBucket,
                                   <<bucketName(cf), bucket(cf).ID,
                                     bucket(cf).Name>>)
                 /\ result' = "thrown"
                 /\ sam' = sam
            ELSE IF NamesInUse(sam, cf)
            THEN /\ console' = Log("error", ErrorNamesInUse,
                                   <<cloudFrontDistribution(cf).Name,
                                     cloudFrontOriginAccessIdentity(cf).Name>>)
                 /\ result' = "thrown"
                 /\ sam' = sam
            ELSE /\ console' = Log("none", "", <<>>)
                 /\ result' = "returned"
                 /\ sam' = Inserted(sam, cf)

Init ==
    /\ sam \in Templates
    /\ arc = NoArc
    /\ before = sam
    /\ result = "none"
    /\ console = Log("none", "", <<>>)
    /\ repeat = FALSE

Next == \E a \in Arcs, stage \in Stages : cloudfront(a, stage)

Spec == Init /\ [][Next]_vars

----------------------------------------------------------------------------
(* Properties                                                               *)

\* a call has been made; it was made with @static and the section present
Called == result # "none"
Configured ==
    /\ Called
    /\ "static" \in DOMAIN arc /\ arc["static"] = TRUE
    /\ "cloudfront-distribution" \in DOMAIN arc
Section == arc["cloudfront-distribution"]

\* the names the last call derives from its bucket identifier
LogicalID ==
    toLogicalID[IF "bucket" \in DOMAIN Section
                THEN Section["bucket"] ELSE "Static"]
BucketKey == LogicalID \o "Bucket"
DistributionKey == LogicalID \o "CloudFrontDistribution"
IdentityKey == LogicalID \o "CloudFrontOriginAccessIdentity"
PolicyKey == LogicalID \o "ResponseHeadersPolicy"

Unchanged ==
    sam.Resources = before.Resources /\ sam.Outputs = before.Outputs

\* C1: a call with config.static falsy, or with no distribution section,
\* returns normally and leaves Resources and Outputs as they were, whatever
\* the template holds.
C1_SkippedCallLeavesTemplate ==
    (Called /\ ~ Configured) => (result = "returned" /\ Unchanged)

C1_Witness ==
    /\ Called /\ ~ Configured
    /\ "static" \in DOMAIN arc /\ arc["static"] = TRUE
    /\ "StaticBucket" \notin DOMAIN sam.Resources
    /\ "StaticCloudFrontDistribution" \in DOMAIN sam.Resources

\* C2: with static and the section present, the bucket resource name is the
\* logical ID of the configured bucket ("Static" by default) followed by
\* "Bucket"; when Resources has no such entry the call throws and changes
\* neither Resources nor Outputs.
C2_MissingBucketIsFatal ==
    (Configured /\ BucketKey \notin DOMAIN before.Resources)
        => /\ result = "thrown"
           /\ console.msg = ErrorNoBucket
           /\ console.names[3] = BucketKey
           /\ Unchanged

C2_Witness ==
    /\ Configured
    /\ "bucket" \in DOMAIN Section
    /\ BucketKey = "MediaBucket"
    /\ "MediaBucket" \notin DOMAIN before.Resources
    /\ "StaticBucket" \in DOMAIN before.Resources
    /\ result = "thrown"

\* C3: when the bucket is there and Resources already has the derived
\* distribution name, the call throws and the key set of Resources is what
\* it was.
C3_DistributionNameInUseIsFatal ==
    (/\ Configured
     /\ BucketKey \in DOMAIN before.Resources
     /\ DistributionKey \in DOMAIN before.Resources)
        => /\ result = "thrown"
           /\ DOMAIN sam.Resources = DOMAIN before.Resources

C3_Witness ==
    /\ Configured
    /\ BucketKey \in DOMAIN before.Resources
    /\ DistributionKey \in DOMAIN before.Resources
    /\ "undefined" \notin DOMAIN before.Resources
    /\ result = "thrown"

\* C4: when Resources already has the derived origin-identity name, the
\* derived response-headers-policy name or the derived distribution name,
\* the call throws and creates no resource; no entry that existed is ever
\* written over.
C4_AnyGeneratedNameInUseIsFatal ==
    (Configured /\ BucketKey \in DOMAIN before.Resources)
        => /\ ({IdentityKey, PolicyKey, DistributionKey}
                    \cap DOMAIN before.Resources # {})
                => (result = "thrown"
                    /\ sam.Resources = before.Resources)
           /\ \A k \in DOMAIN before.Resources :
                sam.Resources[k] = before.Resources[k]

\* C5: a call that repeats the config of the successful call just before it
\* throws the names-in-use failure and leaves Resources and Outputs as the
\* first call left them.
C5_SecondCallIsRejected ==
    repeat => /\ result = "thrown"
              /\ console.msg = ErrorNamesInUse
              /\ Unchanged

C5_Witness ==
    /\ repeat
    /\ Configured
    /\ DistributionKey \in DOMAIN before.Resources
    /\ DistributionKey \in DOMAIN before.Outputs
    /\ result = "thrown"

\* the distribution the last successful call stored, and the names it refers to
StoredDistribution == sam.Resources[DistributionKey]
PolicyRef ==
    StoredDistribution.Properties.DistributionConfig
        .DefaultCacheBehavior.ResponseHeadersPolicyId.Ref
IdentityRef ==
    StoredDistribution.Properties.DistributionConfig.Origins[1]
        .S3OriginConfig.OriginAccessIdentity["Fn::Join"][2][2].Ref

\* C6: after a successful call, the names the distribution refers to (the
\* response-headers policy and the origin identity) are keys of Resources
\* that hold those resources' definitions.
C6_ReferencesAreStored ==
    (Configured /\ result = "returned")
        => /\ PolicyRef \in DOMAIN sam.Resources
           /\ sam.Resources[PolicyRef] = responseHeadersPolicy(Section).sam
           /\ IdentityRef \in DOMAIN sam.Resources
           /\ sam.Resources[IdentityRef]
                = cloudFrontOriginAccessIdentity(Section).sam

\* C7: after any call, Resources either holds all three resources of the
\* call under their derived names or is what it was before the call.
C7_AllOrNothing ==
    Called
        => \/ sam.Resources = before.Resources
           \/ /\ Configured
              /\ {IdentityKey, PolicyKey, DistributionKey}
                    \subseteq DOMAIN sam.Resources
              /\ sam.Resources[IdentityKey]
                    = cloudFrontOriginAccessIdentity(Section).sam
              /\ sam.Resources[PolicyKey] = responseHeadersPolicy(Section).sam
              /\ sam.Resources[DistributionKey]
                    = cloudFrontDistribution(Section).sam

\* C8: a successful call adds exactly one key to Outputs, the name under
\* which the distribution is stored in Resources, and leaves the entries
\* Outputs had as they were.
C8_ExactlyOneNewOutput ==
    (Configured /\ result = "returned")
        => /\ DistributionKey \notin DOMAIN before.Outputs
           /\ DOMAIN sam.Outputs = DOMAIN before.Outputs \cup {DistributionKey}
           /\ DistributionKey \in DOMAIN sam.Resources
           /\ StoredDistribution.Type = "AWS::CloudFront::Distribution"
           /\ \A k \in DOMAIN before.Outputs :
                sam.Outputs[k] = before.Outputs[k]

\* C9: when Outputs already has an entry under the derived distribution
\* name, the call throws the names-in-use failure, keeps that entry and
\* inserts no resource.
C9_OutputNameInUseIsFatal ==
    (/\ Configured
     /\ BucketKey \in DOMAIN before.Resources
     /\ DistributionKey \in DOMAIN before.Outputs)
        => /\ result = "thrown"
           /\ console.msg = ErrorNamesInUse
           /\ Unchanged

\* a page path of the section that is set (present and not empty)
PageSet(k) == k \in DOMAIN Section /\ Section[k] # ""
ErrorResponseFor(k, code) ==
    IF PageSet(k)
    THEN << [ErrorCachingMinTTL |-> 60, ErrorCode |-> code,
             ResponseCode |-> code, ResponsePagePath |-> Section[k]] >>
    ELSE << >>

\* C10: after a successful call the distribution's CustomErrorResponses has
\* one entry for each of the 403 and 404 page paths that is set and none for
\* one that is not, the 403 entry first, each with ErrorCachingMinTTL 60,
\* ErrorCode = ResponseCode = its code and ResponsePagePath = its path.
C10_CustomErrorResponses ==
    (Configured /\ result = "returned")
        => StoredDistribution.Properties.DistributionConfig.CustomErrorResponses
             = ErrorResponseFor("page-403", 403)
                 \o ErrorResponseFor("page-404", 404)

C10_Witness ==
    /\ Configured /\ result = "returned"
    /\ "page-403" \in DOMAIN Section /\ ~ PageSet("page-403")
    /\ PageSet("page-404")
    /\ Len(StoredDistribution.Properties.DistributionConfig
             .CustomErrorResponses) = 1

====
